---- MODULE Spec2Model ----
(***************************************************************************)
(* Hair-type image collection (serpapi_call.py) and the YOLO person filter *)
(* (yolo.py), as state machines.                                           *)
(*                                                                         *)
(* Spec        one collection process: main -> collect_multiple_types ->   *)
(*             collect_images_for_type, against a filesystem with          *)
(*             arbitrary pre-existing files.                               *)
(* RaceSpec    two collection processes run against the same category      *)
(*             directory, interleaved at their filesystem calls.           *)
(* DisjointSpec  two collection processes run against the same output      *)
(*             root, each over its own category.                           *)
(* FilterSpec  one filtering pass, PersonDetectorFilter.filter_all.        *)
(* CountSpec   one call of count_people_in_image, for any detector result. *)
(***************************************************************************)
EXTENDS Integers, Sequences, FiniteSets, TLC

(* ------------------------------ bounds -------------------------------- *)
\* file contents are the byte strings 0..MaxBytes (0 is the empty file)
MaxBytes == 2
\* the longest images_results list of one search response
MaxResults == 2
\* the largest images_per_type
MaxTarget == 2
\* pre-existing files <c>_<i>.jpg have i in 0..MaxPre
MaxPre == 1
\* pre-existing image files of a directory with other names (*.jpeg, *.png)
MaxOther == 1
\* the largest images_per_type of two concurrent processes
RaceTarget == 2
\* the most image files of one category directory of the dataset to filter
MaxImages == 2
\* the most boxes the detector reports for one image
MaxBoxes == 2

(* --------------------------- the environment -------------------------- *)
Procs == {1, 2}
Bytes == 0 .. MaxBytes
URLs == {"u1", "u2"}
\* mutant: only page 0 is tried
Pages_OnlyFirst == <<0>>

\* mutant: a third page is tried
Pages_Three == <<0, 1, 2>>

\* the pages tried per query, line 417
Pages == <<0, 1>>

\* self.hair_type_queries, lines 41-314: category -> its query strings
hair_type_queries ==
    [c \in {"1", "2a", "2b"} |->
        IF c = "1" THEN <<"pin straight hair">>
        ELSE IF c = "2a" THEN <<"wavy 2a hair">>
        ELSE <<"2b wavy hair", "2b loose waves">>]

\* The hair_types lists passed to collect_multiple_types: of one category
\* (run against any pre-existing directory) and of several (run against a
\* fresh output root).  "9z" is not in the catalog.
OneType == { <<>>, <<"2a">>, <<"2b">>, <<"9z">> }
SeveralTypes == { <<"1", "2a">>, <<"2a", "2a">>, <<"9z", "2a">> }

\* One element of a response's images_results: a dict that may lack
\* 'original', or something that is no dict at all (None).
None == [none |-> TRUE]
Images == {[original |-> u] : u \in URLs} \cup {[title |-> "t"], None}

Range(f) == {f[x] : x \in DOMAIN f}

RECURSIVE SeqsUpTo(_, _)
SeqsUpTo(S, n) ==
    IF n = 0 THEN {<<>>}
    ELSE LET shorter == SeqsUpTo(S, n - 1)
         IN  shorter \cup {Append(s, x) : s \in {t \in shorter : Len(t) = n - 1}, x \in S}

\* What GoogleSearch(params).get_dict() does: it raises, or returns a dict
\* that may or may not hold the key images_results.
SearchResults(max_results) ==
    {[raises |-> TRUE, dict |-> <<>>]}
    \cup {[raises |-> FALSE, dict |-> [search_metadata |-> "ok"]]}
    \cup {[raises |-> FALSE, dict |-> [images_results |-> l]] :
              l \in SeqsUpTo(Images, max_results)}

\* What requests.get does for a URL: it raises (connection error, timeout, HTTP
\* error status through raise_for_status), or answers with a content-type (a
\* list of tokens; <<>> is the missing header) and a body whose streaming may
\* break after a prefix of it was received.
ContentTypes == {<<>>, <<"text", "html">>, <<"image", "jpeg">>}
HttpResponses(max_bytes) ==
    {[raises |-> TRUE, content_type |-> <<>>, body |-> 0, stream_fails |-> FALSE]}
    \cup [raises : {FALSE}, content_type : ContentTypes, body : 0 .. max_bytes,
          stream_fails : BOOLEAN]

(* ----------------------------- pure helpers --------------------------- *)
\* mutant: a result without 'original' is appended too (as the URL "")
Originals_NoFieldCheck(l) ==
    [i \in DOMAIN l |-> IF "original" \in DOMAIN l[i] THEN l[i].original ELSE ""]

\* lines 338-344: the 'original' of every result that has one, in order
RECURSIVE Originals(_)
Originals(l) ==
    IF l = <<>> THEN <<>>
    ELSE IF "original" \in DOMAIN Head(l)
         THEN <<Head(l).original>> \o Originals(Tail(l))
         ELSE Originals(Tail(l))

\* mutant: the except clause returns the URLs gathered before the exception
search_images_KeepsPartial(results) ==
    IF results.raises THEN <<>>
    ELSE IF "images_results" \in DOMAIN results.dict
         THEN LET l == results.dict.images_results
                  bad == {i \in DOMAIN l : l[i] = None}
                  upto == IF bad = {} THEN Len(l)
                          ELSE (CHOOSE i \in bad : \A j \in bad : i <= j) - 1
              IN  Originals(SubSeq(l, 1, upto))
         ELSE <<>>

\* search_images, lines 334-347: an exception of the call, or of reading a
\* result that is no dict ('original' in None), ends in the except clause.
search_images(results) ==
    IF results.raises THEN <<>>
    ELSE IF "images_results" \in DOMAIN results.dict
         THEN IF \E i \in DOMAIN results.dict.images_results :
                    results.dict.images_results[i] = None
              THEN <<>>
              ELSE Originals(results.dict.images_results)
         ELSE <<>>

\* Whether the search call raised, or reading its response did.
SearchRaises(results) ==
    \/ results.raises
    \/ /\ "images_results" \in DOMAIN results.dict
       /\ \E i \in DOMAIN results.dict.images_results :
             results.dict.images_results[i] = None

\* Whether a response holds a result with an 'original' field.
HasResults(results) ==
    /\ ~results.raises
    /\ "images_results" \in DOMAIN results.dict
    /\ \E i \in DOMAIN results.dict.images_results :
          "original" \in DOMAIN results.dict.images_results[i]

\* 'image' in content_type, line 359
IsImage(content_type) == \E i \in DOMAIN content_type : content_type[i] = "image"

Put(dir, i, b) == [j \in DOMAIN dir \cup {i} |-> IF j = i THEN b ELSE dir[j]]

\* mutant: unlink leaves the file where it is
Remove_KeepsFile(dir, i) == dir

\* filepath.unlink(), lines 450 and 459
Remove(dir, i) == [j \in DOMAIN dir \ {i} |-> dir[j]]

\* mutant: the body is written before the content-type is looked at
download_image_WriteFirst(dir, i, response) ==
    IF response.raises THEN [ok |-> FALSE, dir |-> dir]
    ELSE IF ~IsImage(response.content_type)
         THEN [ok |-> FALSE, dir |-> Put(dir, i, response.body)]
    ELSE IF response.stream_fails THEN [ok |-> FALSE, dir |-> Put(dir, i, 0)]
    ELSE [ok |-> TRUE, dir |-> Put(dir, i, response.body)]

\* mutant: a stream that breaks is not noticed, the download counts as done
download_image_IgnoresBrokenStream(dir, i, response) ==
    IF response.raises THEN [ok |-> FALSE, dir |-> dir]
    ELSE IF ~IsImage(response.content_type) THEN [ok |-> FALSE, dir |-> dir]
    ELSE IF response.stream_fails THEN [ok |-> TRUE, dir |-> Put(dir, i, 0)]
    ELSE [ok |-> TRUE, dir |-> Put(dir, i, response.body)]

\* download_image, lines 349-369, on the directory holding save_path = index i:
\* the return value and the directory afterwards.  open(save_path, 'wb')
\* creates or truncates the file before the first chunk is read, so a stream
\* that breaks leaves the file there, truncated (bytes 0).
download_image(dir, i, response) ==
    IF response.raises THEN [ok |-> FALSE, dir |-> dir]
    ELSE IF ~IsImage(response.content_type) THEN [ok |-> FALSE, dir |-> dir]
    ELSE IF response.stream_fails THEN [ok |-> FALSE, dir |-> Put(dir, i, 0)]
    ELSE [ok |-> TRUE, dir |-> Put(dir, i, response.body)]

\* get_image_hash, lines 371-374: the digest of the file's bytes.  There are
\* fewer digests than contents: the contents 0 and MaxBytes share theirs.
get_image_hash(bytes) == bytes % MaxBytes

\* mutant: no hash is ever taken for a duplicate
IsDuplicate_Never(img_hash, seen_hashes) == FALSE

\* line 449: the duplicate test
IsDuplicate(img_hash, seen_hashes) == img_hash \in seen_hashes

\* line 430: the URLs of a response not seen before, in order
NewUrls(image_urls, seen_urls) == SelectSeq(image_urls, LAMBDA u : u \notin seen_urls)

\* lines 393-396: the number of *.jpg, *.jpeg and *.png files of the directory
CountExisting(dir, others) == Cardinality(DOMAIN dir) + others

\* mutant: the numbering of a call starts at 0 whatever the directory holds
FileIndex_FromZero(start_index, downloaded) == downloaded

\* line 440
FileIndex(start_index, downloaded) == start_index + downloaded

(* ------------------------------- state -------------------------------- *)
VARIABLES
    api_key,      \* main's API_KEY: the placeholder or a key
    output_dir,   \* whether the output root exists
    fs,           \* category directory -> (index i of <c>_<i>.jpg -> bytes)
    other,        \* category -> number of its image files with other names
    proc,         \* per process: its position and the locals of the functions
    limits,       \* the longest result list and the largest body of a response
    src,          \* the filter's dataset_dir: category -> (image -> bytes)
    out,          \* the filter's output_dir: category -> (index -> bytes)
    stats,        \* PersonDetectorFilter.stats
    stats_file,   \* the filtering_stats.json files written, in order
    flt           \* the filter's position and the locals of its functions

collectVars == <<api_key, output_dir, fs, other, proc, limits>>
filterVars == <<src, out, stats, stats_file, flt>>
vars == <<api_key, output_dir, fs, other, proc, limits, src, out, stats, stats_file, flt>>

\* A process that has not started anything.
Idle ==
    [pc |-> "off", hair_types |-> <<>>, images_per_type |-> 0, ti |-> 1,
     total_downloaded |-> 0, total_api_calls |-> 0,
     hair_type |-> "", existing |-> {}, start_index |-> 0,
     downloaded |-> 0, api_calls |-> 0, seen_hashes |-> {}, seen_urls |-> {},
     query_idx |-> 1, page |-> 1, new_urls |-> <<>>, url |-> "", file_index |-> 0,
     outcome |-> "none", body |-> 0, ret |-> <<0, 0>>,
     last_written |-> -1, wrote |-> {}, kept |-> {}, searched |-> <<>>,
     search_raised |-> FALSE, had_results |-> FALSE]

Start(types, n) == [Idle EXCEPT !.pc = "main", !.hair_types = types, !.images_per_type = n]

\* The output root a run may find: absent, or present with directory "2a"
\* absent, or "2a" holding any files 2a_<i>.jpg with i <= MaxPre (gaps
\* included) and up to MaxOther image files with other names.
AnyFs ==
    /\ output_dir \in BOOLEAN
    /\ \E S \in SUBSET (0 .. MaxPre), o \in 0 .. MaxOther, has \in BOOLEAN :
          /\ (~output_dir \/ ~has) => (S = {} /\ o = 0)
          /\ ~output_dir => ~has
          /\ fs = [c \in (IF has THEN {"2a"} ELSE {}) |-> [i \in S |-> 1]]
          /\ other = [c \in DOMAIN hair_type_queries |-> IF c = "2a" THEN o ELSE 0]

FreshFs ==
    /\ output_dir = FALSE
    /\ fs = << >>
    /\ other = [c \in DOMAIN hair_type_queries |-> 0]

\* PersonDetectorFilter.__init__, lines 26-33
NewStats ==
    [total_processed |-> 0, one_person |-> 0, zero_people |-> 0,
     multiple_people |-> 0, errors |-> 0, by_type |-> << >>]

\* filter_hair_type_folder's type_stats, lines 83-89
NewTypeStats(n) ==
    [total |-> n, one_person |-> 0, zero_people |-> 0, multiple_people |-> 0,
     errors |-> 0]

FilterIdle ==
    [pc |-> "off", hair_types |-> <<>>, i |-> 1, hair_type |-> "",
     image_files |-> <<>>, type_stats |-> NewTypeStats(0), kept_count |-> 0,
     person_count |-> 0, detector_raised |-> FALSE, fresh |-> TRUE]

NoFilter ==
    /\ src = << >> /\ out = << >> /\ stats = NewStats /\ stats_file = <<>>
    /\ flt = FilterIdle

NoCollect ==
    /\ api_key = "key" /\ output_dir = FALSE /\ fs = << >>
    /\ other = [c \in DOMAIN hair_type_queries |-> 0]
    /\ proc = [p \in Procs |-> Idle]
    /\ limits = [results |-> 0, bytes |-> 0]

Init ==
    /\ NoFilter
    /\ limits = [results |-> MaxResults, bytes |-> MaxBytes]
    /\ api_key \in {"your_serpapi_key_here", "key"}
    /\ \E n \in 0 .. MaxTarget :
          \/ /\ AnyFs
             /\ \E types \in OneType :
                   proc = [p \in Procs |-> IF p = 1 THEN Start(types, n) ELSE Idle]
          \/ /\ FreshFs
             /\ \E types \in SeveralTypes :
                   proc = [p \in Procs |-> IF p = 1 THEN Start(types, n) ELSE Idle]

(* ------------------------------ actions ------------------------------- *)
Set(p, r) == proc' = [proc EXCEPT ![p] = r] /\ UNCHANGED <<limits, filterVars>>

\* mutant: every category is collected into the directory, and under the
\* file names, of category "1"
TypeDir_Shared(hair_type) == "1"

\* lines 389 and 441-442: the directory output_dir / hair_type, whose files
\* are named <hair_type>_<index>.jpg
TypeDir(hair_type) == hair_type

Dir(c) == IF TypeDir(c) \in DOMAIN fs THEN fs[TypeDir(c)] ELSE << >>
SetDir(c, d) ==
    fs' = [x \in DOMAIN fs \cup {TypeDir(c)} |-> IF x = TypeDir(c) THEN d ELSE fs[x]]

\* mutant: the scraper is constructed before the API key is looked at
Main_ConstructsFirst(p) ==
    LET me == proc[p] IN
    /\ me.pc = "main"
    /\ output_dir' = TRUE
    /\ IF api_key = "your_serpapi_key_here"
       THEN Set(p, [me EXCEPT !.pc = "aborted"])
       ELSE Set(p, [me EXCEPT !.pc = "driver"])
    /\ UNCHANGED <<api_key, fs, other>>

\* main, lines 504-539: the API key check, then the scraper's constructor
\* (line 38 creates the output root) and the call of collect_multiple_types.
Main(p) ==
    LET me == proc[p] IN
    /\ me.pc = "main"
    /\ IF api_key = "your_serpapi_key_here"
       THEN /\ Set(p, [me EXCEPT !.pc = "aborted"])
            /\ UNCHANGED output_dir
       ELSE /\ Set(p, [me EXCEPT !.pc = "driver"])
            /\ output_dir' = TRUE
    /\ UNCHANGED <<api_key, fs, other>>

\* collect_multiple_types, lines 486-487: the next hair type, or the end.
NextType(p) ==
    LET me == proc[p] IN
    /\ me.pc = "driver"
    /\ IF me.ti > Len(me.hair_types)
       THEN Set(p, [me EXCEPT !.pc = "done"])
       ELSE Set(p, [me EXCEPT !.pc = "collect", !.hair_type = me.hair_types[me.ti]])
    /\ UNCHANGED <<api_key, output_dir, fs, other>>

\* mutant: the directory is created before the catalog is looked at
Collect_MkdirFirst(p) ==
    LET me == proc[p]
        c == me.hair_type IN
    /\ me.pc = "collect"
    /\ SetDir(c, Dir(c))
    /\ IF c \notin DOMAIN hair_type_queries
       THEN Set(p, [me EXCEPT !.pc = "returned", !.ret = <<0, 0>>])
       ELSE Set(p, [me EXCEPT !.pc = "query",
                              !.existing = DOMAIN Dir(c),
                              !.start_index = CountExisting(Dir(c), other[c]),
                              !.downloaded = 0, !.api_calls = 0,
                              !.seen_hashes = {}, !.seen_urls = {},
                              !.query_idx = 1, !.page = 1, !.new_urls = <<>>,
                              !.last_written = -1, !.searched = <<>>,
                              !.search_raised = FALSE, !.had_results = FALSE])
    /\ UNCHANGED <<api_key, output_dir, other>>

\* mutant: seen_hashes starts with the hashes of the files already there
Collect_SeedsSeenFromDisk(p) ==
    LET me == proc[p]
        c == me.hair_type IN
    /\ me.pc = "collect"
    /\ IF c \notin DOMAIN hair_type_queries
       THEN /\ Set(p, [me EXCEPT !.pc = "returned", !.ret = <<0, 0>>])
            /\ UNCHANGED fs
       ELSE /\ SetDir(c, Dir(c))
            /\ Set(p, [me EXCEPT !.pc = "query",
                                 !.existing = DOMAIN Dir(c),
                                 !.start_index = CountExisting(Dir(c), other[c]),
                                 !.downloaded = 0, !.api_calls = 0,
                                 !.seen_hashes = {get_image_hash(Dir(c)[i]) : i \in DOMAIN Dir(c)},
                                 !.seen_urls = {},
                                 !.query_idx = 1, !.page = 1, !.new_urls = <<>>,
                                 !.last_written = -1, !.searched = <<>>,
                                 !.search_raised = FALSE, !.had_results = FALSE])
    /\ UNCHANGED <<api_key, output_dir, other>>

\* collect_images_for_type, lines 384-406: the catalog check, the directory,
\* the count of existing images and the call's fresh locals.
Collect(p) ==
    LET me == proc[p]
        c == me.hair_type IN
    /\ me.pc = "collect"
    /\ IF c \notin DOMAIN hair_type_queries
       THEN /\ Set(p, [me EXCEPT !.pc = "returned", !.ret = <<0, 0>>])
            /\ UNCHANGED fs
       ELSE /\ SetDir(c, Dir(c))
            /\ Set(p, [me EXCEPT !.pc = "query",
                                 !.existing = DOMAIN Dir(c),
                                 !.start_index = CountExisting(Dir(c), other[c]),
                                 !.downloaded = 0, !.api_calls = 0,
                                 !.seen_hashes = {}, !.seen_urls = {},
                                 !.query_idx = 1, !.page = 1, !.new_urls = <<>>,
                                 !.last_written = -1, !.searched = <<>>,
                                 !.search_raised = FALSE, !.had_results = FALSE])
    /\ UNCHANGED <<api_key, output_dir, other>>

\* lines 409-411 and 465-469: the head of the query loop, and the return.
QueryLoop(p) ==
    LET me == proc[p] IN
    /\ me.pc = "query"
    /\ IF me.query_idx > Len(hair_type_queries[me.hair_type])
          \/ me.downloaded >= me.images_per_type
       THEN Set(p, [me EXCEPT !.pc = "returned",
                              !.ret = <<me.downloaded, me.api_calls>>])
       ELSE Set(p, [me EXCEPT !.pc = "page", !.page = 1])
    /\ UNCHANGED <<api_key, output_dir, fs, other>>

\* lines 417-431: the head of the page loop, the search and the URL filter.
PageLoop(p) ==
    LET me == proc[p] IN
    /\ me.pc = "page"
    /\ IF me.page > Len(Pages) \/ me.downloaded >= me.images_per_type
       THEN Set(p, [me EXCEPT !.pc = "query", !.query_idx = @ + 1])
       ELSE \E results \in SearchResults(limits.results) :
              LET image_urls == search_images(results)
                  counted == [me EXCEPT !.api_calls = @ + 1,
                                        !.searched = Append(@, <<me.query_idx, Pages[me.page]>>),
                                        !.search_raised = SearchRaises(results),
                                        !.had_results = @ \/ HasResults(results)]
              IN  IF image_urls = <<>>
                  THEN Set(p, [counted EXCEPT !.pc = "no_results"])
                  ELSE Set(p, [counted EXCEPT !.pc = "url",
                                   !.new_urls = NewUrls(image_urls, me.seen_urls)])
    /\ UNCHANGED <<api_key, output_dir, fs, other>>

\* lines 425-427: no results, on to the next page.
NoResults(p) ==
    LET me == proc[p] IN
    /\ me.pc = "no_results"
    /\ Set(p, [me EXCEPT !.pc = "page", !.page = @ + 1, !.search_raised = FALSE])
    /\ UNCHANGED <<api_key, output_dir, fs, other>>

\* mutant: the URL loop stops one download too late
UrlLoop_OffByOne(p) ==
    LET me == proc[p] IN
    /\ me.pc = "url"
    /\ IF me.new_urls = <<>> \/ me.downloaded > me.images_per_type
       THEN Set(p, [me EXCEPT !.pc = "page", !.page = @ + 1, !.new_urls = <<>>,
                              !.search_raised = FALSE])
       ELSE Set(p, [me EXCEPT !.pc = "download", !.search_raised = FALSE,
                              !.url = Head(me.new_urls), !.new_urls = Tail(me.new_urls),
                              !.seen_urls = @ \cup {Head(me.new_urls)},
                              !.file_index = FileIndex(me.start_index, me.downloaded)])
    /\ UNCHANGED <<api_key, output_dir, fs, other>>

\* lines 433-442: the head of the URL loop, and the file name of the next URL.
UrlLoop(p) ==
    LET me == proc[p] IN
    /\ me.pc = "url"
    /\ IF me.new_urls = <<>> \/ me.downloaded >= me.images_per_type
       THEN Set(p, [me EXCEPT !.pc = "page", !.page = @ + 1, !.new_urls = <<>>,
                              !.search_raised = FALSE])
       ELSE Set(p, [me EXCEPT !.pc = "download", !.search_raised = FALSE,
                              !.url = Head(me.new_urls), !.new_urls = Tail(me.new_urls),
                              !.seen_urls = @ \cup {Head(me.new_urls)},
                              !.file_index = FileIndex(me.start_index, me.downloaded)])
    /\ UNCHANGED <<api_key, output_dir, fs, other>>

\* What a response makes of a download, for the record.
Outcome(response) ==
    IF response.raises THEN "error"
    ELSE IF ~IsImage(response.content_type) THEN "not_image"
    ELSE IF response.stream_fails THEN "stream_error"
    ELSE "ok"

\* line 445: the download of the URL to filepath.
Download(p) ==
    LET me == proc[p]
        c == me.hair_type IN
    /\ me.pc = "download"
    /\ \E response \in HttpResponses(limits.bytes) :
          LET r == download_image(Dir(c), me.file_index, response) IN
          /\ SetDir(c, r.dir)
          /\ Set(p, [me EXCEPT !.pc = IF r.ok THEN "hash" ELSE "sleep",
                               !.outcome = Outcome(response),
                               !.body = IF r.ok THEN response.body ELSE 0,
                               !.last_written =
                                   IF Outcome(response) \in {"ok", "stream_error"}
                                   THEN me.file_index ELSE @,
                               !.wrote =
                                   IF Outcome(response) \in {"ok", "stream_error"}
                                   THEN @ \cup {<<c, me.file_index>>} ELSE @])
    /\ UNCHANGED <<api_key, output_dir, other>>

\* lines 446-453 and 457: the hash of the file and the duplicate check.  The
\* read raises when the file is gone, and may raise for any other reason.
Hash(p) ==
    LET me == proc[p]
        c == me.hair_type
        i == me.file_index IN
    /\ me.pc = "hash"
    /\ \E raises \in BOOLEAN :
          IF raises \/ i \notin DOMAIN Dir(c)
          THEN Set(p, [me EXCEPT !.pc = "cleanup", !.outcome = "hash_error", !.body = 0])
          ELSE LET img_hash == get_image_hash(Dir(c)[i]) IN
               IF IsDuplicate(img_hash, me.seen_hashes)
               THEN Set(p, [me EXCEPT !.pc = "unlink", !.outcome = "duplicate", !.body = 0])
               ELSE Set(p, [me EXCEPT !.pc = "sleep", !.outcome = "new", !.body = 0,
                                      !.seen_hashes = @ \cup {img_hash},
                                      !.downloaded = @ + 1,
                                      !.kept = @ \cup {<<c, i, me.body>>}])
    /\ UNCHANGED <<api_key, output_dir, fs, other>>

\* lines 450-451: the duplicate is deleted and the loop continues.  An unlink
\* of a missing file raises into line 457, where exists() is then false.
Unlink(p) ==
    LET me == proc[p]
        c == me.hair_type IN
    /\ me.pc = "unlink"
    /\ SetDir(c, Remove(Dir(c), me.file_index))
    /\ Set(p, [me EXCEPT !.pc = "url", !.outcome = "none", !.url = "", !.file_index = 0])
    /\ UNCHANGED <<api_key, output_dir, other>>

\* mutant: the except clause only passes
Cleanup_LeavesFile(p) ==
    LET me == proc[p] IN
    /\ me.pc = "cleanup"
    /\ Set(p, [me EXCEPT !.pc = "sleep"])
    /\ UNCHANGED <<api_key, output_dir, fs, other>>

\* lines 457-459: after an error in the try block the file is deleted if it
\* exists.
Cleanup(p) ==
    LET me == proc[p]
        c == me.hair_type IN
    /\ me.pc = "cleanup"
    /\ SetDir(c, Remove(Dir(c), me.file_index))
    /\ Set(p, [me EXCEPT !.pc = "sleep"])
    /\ UNCHANGED <<api_key, output_dir, other>>

\* line 461: the delay that ends the handling of one URL.
Sleep(p) ==
    LET me == proc[p] IN
    /\ me.pc = "sleep"
    /\ Set(p, [me EXCEPT !.pc = "url", !.outcome = "none", !.url = "", !.file_index = 0])
    /\ UNCHANGED <<api_key, output_dir, fs, other>>

\* collect_multiple_types, lines 487-489: the totals.
Accumulate(p) ==
    LET me == proc[p] IN
    /\ me.pc = "returned"
    /\ Set(p, [me EXCEPT !.pc = "driver", !.ti = @ + 1,
                         !.total_downloaded = @ + me.ret[1],
                         !.total_api_calls = @ + me.ret[2],
                         !.existing = {}, !.start_index = 0, !.downloaded = 0,
                         !.api_calls = 0, !.seen_hashes = {}, !.seen_urls = {},
                         !.query_idx = 1, !.page = 1,
                         !.last_written = -1, !.searched = <<>>,
                         !.had_results = FALSE])
    /\ UNCHANGED <<api_key, output_dir, fs, other>>

Step(p) ==
    \/ Main(p)
    \/ NextType(p)
    \/ Collect(p)
    \/ QueryLoop(p)
    \/ PageLoop(p)
    \/ NoResults(p)
    \/ UrlLoop(p)
    \/ Download(p)
    \/ Hash(p)
    \/ Unlink(p)
    \/ Cleanup(p)
    \/ Sleep(p)
    \/ Accumulate(p)

Next == Step(1)

Spec == Init /\ [][Next]_vars

(* ---------------------- two concurrent collections -------------------- *)
\* Two processes were started with a key, each for the one category "2a" and
\* the same images_per_type, against the same fresh output root.  A search
\* response holds at most one result here, and a body is one of two contents.
RaceInit ==
    /\ NoFilter
    /\ api_key = "key"
    /\ FreshFs
    /\ limits = [results |-> 1, bytes |-> 1]
    /\ \E n \in 1 .. RaceTarget :
          proc = [p \in Procs |-> Start(<<"2a">>, n)]

RaceNext == \E p \in Procs : Step(p)

RaceSpec == RaceInit /\ [][RaceNext]_vars

(* ------------- two collections over disjoint categories --------------- *)
\* Two processes were started with a key against the same fresh output root,
\* one for category "1" and one for category "2a".
DisjointInit ==
    /\ NoFilter
    /\ api_key = "key"
    /\ FreshFs
    /\ limits = [results |-> 1, bytes |-> 1]
    /\ \E n \in 1 .. RaceTarget :
          proc = [p \in Procs |-> Start(IF p = 1 THEN <<"1">> ELSE <<"2a">>, n)]

DisjointSpec == DisjointInit /\ [][RaceNext]_vars

(* --------------------------- the person filter ------------------------- *)
\* count_people_in_image's value when the detector raised, line 56 (None)
NoCount == -1
\* line 49: class 0 is 'person'
PersonClass == 0
\* line 49: the confidence threshold 0.5, in percent
ConfThreshold == 50

\* What self.model(image_path) does: it raises, or lists boxes, each with a
\* class id and a confidence (in percent).
Boxes == [cls : {0, 1}, conf : {30, 50, 51, 90}]
Detections ==
    {[raises |-> TRUE, boxes |-> <<>>]}
    \cup {[raises |-> FALSE, boxes |-> b] : b \in SeqsUpTo(Boxes, MaxBoxes)}

\* mutant: a box with the confidence of the threshold counts too
count_people_in_image_AtThreshold(detection) ==
    IF detection.raises THEN NoCount
    ELSE Cardinality({i \in DOMAIN detection.boxes :
                         /\ detection.boxes[i].cls = PersonClass
                         /\ detection.boxes[i].conf >= ConfThreshold})

\* mutant: a detector failure counts as an image without people
count_people_in_image_ZeroOnError(detection) ==
    IF detection.raises THEN 0
    ELSE Cardinality({i \in DOMAIN detection.boxes :
                         /\ detection.boxes[i].cls = PersonClass
                         /\ detection.boxes[i].conf > ConfThreshold})

\* count_people_in_image, lines 35-56
count_people_in_image(detection) ==
    IF detection.raises THEN NoCount
    ELSE Cardinality({i \in DOMAIN detection.boxes :
                         /\ detection.boxes[i].cls = PersonClass
                         /\ detection.boxes[i].conf > ConfThreshold})

\* mutant: an image the detector failed on is passed over without a count
Classify_ErrorsUncounted(person_count) ==
    IF person_count = NoCount THEN "skipped"
    ELSE IF person_count = 1 THEN "one_person"
    ELSE IF person_count = 0 THEN "zero_people"
    ELSE "multiple_people"

\* mutant: an image with one person or more is kept
Classify_AtLeastOne(person_count) ==
    IF person_count = NoCount THEN "errors"
    ELSE IF person_count >= 1 THEN "one_person"
    ELSE "zero_people"

\* lines 99-114: the bucket of an image
Classify(person_count) ==
    IF person_count = NoCount THEN "errors"
    ELSE IF person_count = 1 THEN "one_person"
    ELSE IF person_count = 0 THEN "zero_people"
    ELSE "multiple_people"

\* mutant: the names of the kept images are numbered from 1
TargetIndex_FromOne(kept_count) == kept_count + 1

\* mutant: every kept image of a folder gets the same name
TargetIndex_Fixed(kept_count) == 0

\* line 104: the index in the name of a kept image
TargetIndex(kept_count) == kept_count

\* lines 130-131: the names of the dataset's directories, sorted
AllTypes == <<"1", "2a", "2b">>
Sorted(S) == SelectSeq(AllTypes, LAMBDA c : c \in S)

\* the orders in which glob may list the files of a directory, lines 74-76
Listings(files) ==
    {l \in SeqsUpTo(files, Cardinality(files)) :
         Len(l) = Cardinality(files) /\ Range(l) = files}

Bump(r, field) ==
    [f \in DOMAIN r |-> IF f = field THEN r[f] + 1 ELSE r[f]]

\* The dataset tree a pass may find: any of the directories "1" and "2a",
\* each with up to MaxImages image files (image k holds the bytes k), and an
\* output tree that is empty or holds a file of an earlier pass.
FilterInit ==
    /\ NoCollect
    /\ \E S \in SUBSET {"1", "2a"} :
          \E n \in [S -> 0 .. MaxImages] :
             src = [c \in S |-> [k \in 1 .. n[c] |-> k]]
    /\ \E stale \in {-1, 0, MaxImages} :
          /\ out = IF stale = -1 THEN << >>
                   ELSE [c \in {"1"} |-> [k \in {stale} |-> 0]]
          /\ flt = [FilterIdle EXCEPT !.pc = "filter_all", !.fresh = (stale = -1)]
    /\ stats = NewStats
    /\ stats_file = <<>>

\* filter_all, lines 130-133
FilterAll ==
    /\ flt.pc = "filter_all"
    /\ flt' = [flt EXCEPT !.pc = "loop", !.hair_types = Sorted(DOMAIN src), !.i = 1]
    /\ UNCHANGED <<src, out, stats, stats_file>>
    /\ UNCHANGED collectVars

\* filter_all, lines 135-136: the next folder, or on to save_statistics
NextFolder ==
    /\ flt.pc = "loop"
    /\ IF flt.i > Len(flt.hair_types)
       THEN flt' = [flt EXCEPT !.pc = "save"]
       ELSE flt' = [flt EXCEPT !.pc = "folder", !.hair_type = flt.hair_types[flt.i]]
    /\ UNCHANGED <<src, out, stats, stats_file>>
    /\ UNCHANGED collectVars

\* filter_hair_type_folder, lines 65-91
FolderStart ==
    LET c == flt.hair_type IN
    /\ flt.pc = "folder"
    /\ out' = [x \in DOMAIN out \cup {c} |-> IF x \in DOMAIN out THEN out[x] ELSE << >>]
    /\ IF c \notin DOMAIN src
       THEN flt' = [flt EXCEPT !.pc = "loop", !.i = @ + 1]
       ELSE \E image_files \in Listings(DOMAIN src[c]) :
               flt' = [flt EXCEPT !.pc = "image", !.image_files = image_files,
                                  !.type_stats = NewTypeStats(Len(image_files)),
                                  !.kept_count = 0, !.person_count = 0,
                                  !.detector_raised = FALSE]
    /\ UNCHANGED <<src, stats, stats_file>>
    /\ UNCHANGED collectVars

\* filter_hair_type_folder, lines 94-114: one image, or the end of the loop
ProcessImage ==
    LET c == flt.hair_type IN
    /\ flt.pc = "image"
    /\ IF flt.image_files = <<>>
       THEN /\ flt' = [flt EXCEPT !.pc = "folder_end"]
            /\ UNCHANGED <<out, stats>>
       ELSE \E detection \in Detections :
              LET img_path == Head(flt.image_files)
                  person_count == count_people_in_image(detection)
                  bucket == Classify(person_count)
              IN  /\ stats' = Bump(Bump(stats, "total_processed"), bucket)
                  /\ out' = IF bucket = "one_person"
                            THEN [out EXCEPT ![c] =
                                     Put(@, TargetIndex(flt.kept_count), src[c][img_path])]
                            ELSE out
                  /\ flt' = [flt EXCEPT !.image_files = Tail(@),
                                        !.person_count = person_count,
                                        !.detector_raised = detection.raises,
                                        !.type_stats = Bump(@, bucket),
                                        !.kept_count = IF bucket = "one_person"
                                                       THEN @ + 1 ELSE @]
    /\ UNCHANGED <<src, stats_file>>
    /\ UNCHANGED collectVars

\* mutant: by_type is replaced by the entry of the current category
FolderEnd_OverwritesByType ==
    LET c == flt.hair_type IN
    /\ flt.pc = "folder_end"
    /\ stats' = [stats EXCEPT !.by_type = [x \in {c} |-> flt.type_stats]]
    /\ IF flt.type_stats.total = 0
       THEN flt' = [flt EXCEPT !.pc = "raised"]
       ELSE flt' = [flt EXCEPT !.pc = "loop", !.i = @ + 1]
    /\ UNCHANGED <<src, out, stats_file>>
    /\ UNCHANGED collectVars

\* filter_hair_type_folder, lines 116-123: the category's entry in by_type,
\* then the results with the retention rate one_person / total, which raises
\* ZeroDivisionError for a directory without images.
FolderEnd ==
    LET c == flt.hair_type IN
    /\ flt.pc = "folder_end"
    /\ stats' = [stats EXCEPT !.by_type =
                    [x \in DOMAIN @ \cup {c} |-> IF x = c THEN flt.type_stats ELSE @[x]]]
    /\ IF flt.type_stats.total = 0
       THEN flt' = [flt EXCEPT !.pc = "raised"]
       ELSE flt' = [flt EXCEPT !.pc = "loop", !.i = @ + 1]
    /\ UNCHANGED <<src, out, stats_file>>
    /\ UNCHANGED collectVars

\* save_statistics, lines 139 and 142-147
SaveStatistics ==
    /\ flt.pc = "save"
    /\ stats_file' = Append(stats_file, stats)
    /\ flt' = [flt EXCEPT !.pc = "summary"]
    /\ UNCHANGED <<src, out, stats>>
    /\ UNCHANGED collectVars

\* print_final_summary, lines 140 and 149-169: the overall retention rate
\* one_person / total_processed raises ZeroDivisionError when nothing was
\* processed.
PrintFinalSummary ==
    /\ flt.pc = "summary"
    /\ IF stats.total_processed = 0
       THEN flt' = [flt EXCEPT !.pc = "raised"]
       ELSE flt' = [flt EXCEPT !.pc = "done"]
    /\ UNCHANGED <<src, out, stats, stats_file>>
    /\ UNCHANGED collectVars

FilterNext ==
    \/ FilterAll
    \/ NextFolder
    \/ FolderStart
    \/ ProcessImage
    \/ FolderEnd
    \/ SaveStatistics
    \/ PrintFinalSummary

FilterSpec == FilterInit /\ [][FilterNext]_vars

(* ------------------ one call of count_people_in_image ------------------ *)
\* A call of count_people_in_image for an image on which the detector does
\* any of the things it can do.
CountInit ==
    /\ NoCollect
    /\ src = << >> /\ out = << >> /\ stats = NewStats /\ stats_file = <<>>
    /\ \E detection \in Detections :
          flt = [pc |-> "count", detection |-> detection, person_count |-> NoCount]

\* count_people_in_image, lines 35-56: the call and its return value
CountPeople ==
    /\ flt.pc = "count"
    /\ flt' = [flt EXCEPT !.pc = "counted",
                          !.person_count = count_people_in_image(flt.detection)]
    /\ UNCHANGED <<src, out, stats, stats_file>>
    /\ UNCHANGED collectVars

CountNext == CountPeople

CountSpec == CountInit /\ [][CountNext]_vars

(* ------------------------- collection: claims -------------------------- *)
P == proc[1]
InCall(me) ==
    me.pc \in {"query", "page", "no_results", "url", "download", "hash",
               "unlink", "cleanup", "sleep"}
\* the names <category, index> of the files the run counted as downloaded
KeptNames(me) == {<<k[1], k[2]>> : k \in me.kept}
Exists(n) == n[1] \in DOMAIN fs /\ n[2] \in DOMAIN fs[n[1]]
\* the indices the current call counted: start_index .. start_index+downloaded-1
Counted(me) == me.start_index .. (me.start_index + me.downloaded - 1)

\* C1 as stated: after a run of collect_multiple_types, no two files the run
\* downloaded and left in the output directory have identical bytes.
C1_NoDuplicateInRun ==
    P.pc = "done" =>
        \A m, n \in KeptNames(P) :
            (m # n /\ Exists(m) /\ Exists(n)) => fs[m[1]][m[2]] # fs[n[1]][n[2]]

\* C1 amended: at any moment of one collect_images_for_type call, and at its
\* return, the files this call downloaded and counted are all in the
\* category directory and no two of them have identical bytes.
C1_NoDuplicateInCall ==
    (InCall(P) \/ (P.pc = "returned" /\ P.hair_type \in DOMAIN hair_type_queries)) =>
        /\ Counted(P) \subseteq DOMAIN Dir(P.hair_type)
        /\ \A i, j \in Counted(P) :
              i # j => Dir(P.hair_type)[i] # Dir(P.hair_type)[j]

\* C1 witness: a call is about to delete a just-downloaded file whose bytes
\* are those of a file it counted before.
C1_Witness ==
    /\ P.pc = "unlink" /\ P.outcome = "duplicate"
    /\ P.downloaded >= 1
    /\ \E i \in Counted(P) : Dir(P.hair_type)[i] = Dir(P.hair_type)[P.file_index]

\* a step of the call that writes to filepath, and one that deletes it
WritesFile(p) ==
    proc[p].pc = "download" /\ proc'[p].outcome \in {"ok", "stream_error"}
DeletesFile(p) ==
    /\ proc[p].pc \in {"unlink", "cleanup"}
    /\ proc[p].file_index \in DOMAIN Dir(proc[p].hair_type)

\* C2 as stated: the file names a call writes have strictly increasing
\* indices, and no write, overwrite or delete targets a file that existed
\* before the call.
C2_IncreasingAndNoCollision ==
    [][ /\ WritesFile(1) =>
             /\ P.file_index > P.last_written
             /\ P.file_index \notin P.existing
        /\ DeletesFile(1) => P.file_index \notin P.existing ]_vars

\* C3: while no search response of the call held a result with an 'original'
\* field, nothing is downloaded or written and the downloader is not called;
\* the call returns (0, api_calls) after trying every (query, page).
C3_NoResultsNoDownloads ==
    ((InCall(P) \/ P.pc = "returned") /\ P.hair_type \in DOMAIN hair_type_queries
         /\ ~P.had_results) =>
        /\ P.downloaded = 0
        /\ P.last_written = -1
        /\ P.seen_urls = {}
        /\ P.pc \notin {"url", "download", "hash", "unlink", "cleanup", "sleep"}
        /\ DOMAIN Dir(P.hair_type) = P.existing
        /\ P.pc = "returned" =>
              /\ P.ret = <<0, P.api_calls>>
              /\ P.images_per_type > 0 =>
                    P.api_calls = 2 * Len(hair_type_queries[P.hair_type])

\* C3 witness: a call returns after searches that all came back without
\* results (an exception, no images_results, an empty list, no 'original').
C3_Witness ==
    /\ P.pc = "returned" /\ ~P.had_results
    /\ P.hair_type = "2b" /\ Len(P.searched) = 4

\* C4: a response whose content-type does not contain 'image' makes
\* download_image fail with the directory exactly as it was, and the driver
\* goes on to the next URL with downloaded unchanged.
C4_NonImageNotWritten ==
    [][ /\ (P.pc = "download" /\ proc'[1].outcome = "not_image") =>
             /\ fs' = fs
             /\ proc'[1].pc = "sleep"
             /\ proc'[1].downloaded = P.downloaded
        /\ (P.pc = "sleep" /\ P.outcome = "not_image") =>
             /\ fs' = fs
             /\ proc'[1].pc = "url"
             /\ proc'[1].downloaded = P.downloaded ]_vars

\* C4 witness: a non-image response was rejected while filepath names a file
\* that is already there.
C4_Witness ==
    /\ P.pc = "sleep" /\ P.outcome = "not_image"
    /\ P.file_index \in DOMAIN Dir(P.hair_type)


\* C8: a search whose call, or whose response's reading, raised gives the
\* driver an empty list: the pair counts as searched, nothing is downloaded
\* or written, and the driver goes on with the next page of the same query.
C8_SearchErrorIsNoResults ==
    [][ /\ (P.pc = "page" /\ proc'[1].search_raised) =>
             /\ proc'[1].pc = "no_results"
             /\ proc'[1].new_urls = <<>>
             /\ proc'[1].api_calls = P.api_calls + 1
             /\ proc'[1].downloaded = P.downloaded
             /\ fs' = fs
        /\ (P.pc = "no_results" /\ P.search_raised) =>
             /\ proc'[1].pc = "page"
             /\ proc'[1].page = P.page + 1
             /\ proc'[1].query_idx = P.query_idx
             /\ proc'[1].downloaded = P.downloaded
             /\ fs' = fs ]_vars

\* C8 witness: the search of a query's first page raised and the driver is
\* about to go on to its second page.
C8_Witness ==
    /\ P.pc = "no_results" /\ P.search_raised
    /\ P.page = 1

\* A variant of the call: the queries, pages and URLs still ahead, then the
\* steps left for the URL in hand.  It is positive inside the call.
Stage(pc) ==
    CASE pc = "download" -> 4
      [] pc = "hash" -> 3
      [] pc \in {"unlink", "cleanup"} -> 2
      [] pc = "sleep" -> 1
      [] OTHER -> 0
Rank(me) ==
    IF ~InCall(me) THEN 0
    ELSE LET q == Len(hair_type_queries[me.hair_type]) + 1 - me.query_idx
             pg == IF me.pc = "query" THEN Len(Pages) + 1
                   ELSE Len(Pages) + 1 - me.page
             u == IF me.pc \in {"query", "page"} THEN MaxResults + 1
                  ELSE IF me.pc = "no_results" THEN 0
                  ELSE Len(me.new_urls)
         IN  ((q * (Len(Pages) + 2) + pg) * (MaxResults + 2) + u) * 5 + Stage(me.pc) + 1

\* every (query, page) of the category, each query with pages 0 and 1
AllSearched(me) ==
    \A q \in 1 .. Len(hair_type_queries[me.hair_type]), pg \in {0, 1} :
        <<q, pg>> \in Range(me.searched)

\* C9: a call terminates (every step of it lowers a variant that stays
\* positive inside the call, and inside the call a step is always possible),
\* and when it returns, downloaded equals target_count or every (query, page)
\* of the category was searched.
C9_TerminatesAtTargetOrExhausted ==
    /\ [][InCall(P) => (Rank(proc'[1]) < Rank(P))]_vars
    /\ [](InCall(P) => (Rank(P) > 0 /\ ENABLED Next))
    /\ []((P.pc = "returned" /\ P.hair_type \in DOMAIN hair_type_queries) =>
             (P.downloaded = P.images_per_type \/ AllSearched(P)))

\* C9 witness: a call returns with the target reached before all the pairs
\* of its category were searched.
C9_Witness ==
    /\ P.pc = "returned" /\ P.hair_type = "2b"
    /\ P.downloaded = P.images_per_type /\ P.images_per_type = 2
    /\ ~AllSearched(P)


\* C14: with the placeholder as API key the only step of the process is
\* main's return: the output root is not created, no directory or file is
\* touched, and no local of the scraper (its counters, the searches made,
\* the files written) is set.
C14_PlaceholderKeyDoesNothing ==
    [][ api_key = "your_serpapi_key_here" =>
           /\ P.pc = "main"
           /\ proc' = [proc EXCEPT ![1] = [Start(P.hair_types, P.images_per_type)
                                             EXCEPT !.pc = "aborted"]]
           /\ UNCHANGED <<api_key, output_dir, fs, other>> ]_vars

\* C14 witness: main returned for the placeholder key, asked for two images
\* of a category of the catalog, and there is no output root.
C14_Witness ==
    /\ api_key = "your_serpapi_key_here"
    /\ P.pc = "aborted" /\ P.hair_types = <<"2a">> /\ P.images_per_type = 2
    /\ ~output_dir /\ fs = << >>

\* C15 as stated: within one call, a URL handed to the downloader was not
\* handed to it before.
C15_NoUrlDownloadedTwice ==
    [][ (P.pc = "url" /\ proc'[1].pc = "download") =>
            proc'[1].url \notin P.seen_urls ]_vars

\* C16: inside a call and at its return 0 <= downloaded <= target_count;
\* a step of the call that changes downloaded adds 1 to it, and is the step
\* after a successful download that finds the file's hash not in seen_hashes
\* and adds it.
C16_DownloadedBounded ==
    /\ []((InCall(P) \/ (P.pc = "returned" /\ P.hair_type \in DOMAIN hair_type_queries)) =>
             (0 <= P.downloaded /\ P.downloaded <= P.images_per_type))
    /\ [][ (InCall(P) /\ proc'[1].downloaded # P.downloaded) =>
              /\ proc'[1].downloaded = P.downloaded + 1
              /\ P.pc = "hash" /\ P.outcome = "ok"
              /\ P.file_index \in DOMAIN Dir(P.hair_type)
              /\ LET img_hash == get_image_hash(Dir(P.hair_type)[P.file_index]) IN
                     /\ img_hash \notin P.seen_hashes
                     /\ proc'[1].seen_hashes = P.seen_hashes \cup {img_hash} ]_vars

\* C16 witness: the second download of a call was counted, which reaches
\* the target of 2 while a URL of the response is still ahead.
C16_Witness ==
    /\ P.pc = "sleep" /\ P.outcome = "new"
    /\ P.downloaded = 2 /\ P.images_per_type = 2
    /\ P.new_urls # <<>>

\* the counters the driver returns or reports
Counters(me) ==
    <<me.downloaded, me.api_calls, me.total_downloaded, me.total_api_calls>>

\* C17 as stated: a URL whose download failed is skipped (on to the delay
\* and the next URL, the URL marked as seen) and is counted (one of the
\* driver's counters changes).
C17_FailedDownloadSkippedAndCounted ==
    [][ (P.pc = "download"
           /\ proc'[1].outcome \in {"error", "not_image", "stream_error"}) =>
            /\ proc'[1].pc = "sleep"
            /\ P.url \in proc'[1].seen_urls
            /\ Counters(proc'[1]) # Counters(P) ]_vars

\* the (query, page) pairs of a category in the order of the loops: query
\* by query, pages 0 then 1
FullOrder(c) ==
    [k \in 1 .. 2 * Len(hair_type_queries[c]) |-> <<(k + 1) \div 2, (k + 1) % 2>>]
ValidCall(me) ==
    InCall(me) \/ (me.pc = "returned" /\ me.hair_type \in DOMAIN hair_type_queries)

\* C18: the searches a call has made are the first pairs of the order query
\* by query, page 0 then page 1, each made once, whatever a search gave;
\* api_calls is their number, at most 2 per query, and is what the call
\* returns.
C18_EachPairSearchedOnceInOrder ==
    ValidCall(P) =>
        /\ Len(P.searched) <= 2 * Len(hair_type_queries[P.hair_type])
        /\ P.searched = SubSeq(FullOrder(P.hair_type), 1, Len(P.searched))
        /\ P.api_calls = Len(P.searched)
        /\ P.pc = "returned" => P.ret[2] = P.api_calls

\* C18 witness: a call for a category with two queries returns short of its
\* target after the four searches, of which some gave nothing.
C18_Witness ==
    /\ P.pc = "returned" /\ P.hair_type = "2b"
    /\ P.searched = FullOrder("2b")
    /\ P.ret = <<1, 4>> /\ P.images_per_type = 2
    /\ Cardinality(P.seen_urls) = 1

\* the hash of the file the call has in hand
HashInHand(me) == get_image_hash(Dir(me.hair_type)[me.file_index])

\* C19: when the hash of the just-downloaded file is in seen_hashes the
\* file is deleted, downloaded and seen_hashes stay, and the index of the
\* next file is the one of the deleted file; when it is not, it is added
\* to seen_hashes, the file stays and downloaded grows by 1.
C19_DuplicateDeletedNewCounted ==
    [][ /\ (P.pc = "hash" /\ proc'[1].outcome = "duplicate") =>
             /\ HashInHand(P) \in P.seen_hashes
             /\ proc'[1].pc = "unlink"
             /\ proc'[1].downloaded = P.downloaded
             /\ proc'[1].seen_hashes = P.seen_hashes
        /\ P.pc = "unlink" =>
             /\ P.file_index \notin DOMAIN fs'[P.hair_type]
             /\ \A i \in DOMAIN Dir(P.hair_type) \ {P.file_index} :
                   /\ i \in DOMAIN fs'[P.hair_type]
                   /\ fs'[P.hair_type][i] = fs[P.hair_type][i]
             /\ proc'[1].downloaded = P.downloaded
             /\ proc'[1].seen_hashes = P.seen_hashes
             /\ FileIndex(proc'[1].start_index, proc'[1].downloaded) = P.file_index
        /\ (P.pc = "hash" /\ proc'[1].outcome = "new") =>
             /\ HashInHand(P) \notin P.seen_hashes
             /\ proc'[1].seen_hashes = P.seen_hashes \cup {HashInHand(P)}
             /\ fs' = fs /\ P.file_index \in DOMAIN Dir(P.hair_type)
             /\ proc'[1].downloaded = P.downloaded + 1 ]_vars

\* C19 witness: in a directory that held one file, a call that counted the
\* file 1 is about to delete the duplicate it downloaded as file 2.
C19_Witness ==
    /\ P.pc = "unlink" /\ P.start_index = 1 /\ P.downloaded = 1
    /\ P.file_index = 2 /\ 2 \in DOMAIN Dir(P.hair_type)
    /\ HashInHand(P) \in P.seen_hashes

\* C20: seen_hashes is empty when a call starts; inside a call it holds the
\* hashes of the files the call counted, which differ pairwise; a download
\* is a duplicate only of a file this call counted, so one whose bytes are
\* those of a file of the directory from before the call is counted.
C20_GuardScopedToCall ==
    /\ [][ (P.pc = "collect" /\ proc'[1].pc = "query") =>
              proc'[1].seen_hashes = {} ]_vars
    /\ [](ValidCall(P) =>
            /\ \A i, j \in Counted(P) :
                  i # j => get_image_hash(Dir(P.hair_type)[i])
                             # get_image_hash(Dir(P.hair_type)[j])
            /\ P.seen_hashes = {get_image_hash(Dir(P.hair_type)[i]) : i \in Counted(P)})
    /\ [][ P.pc = "hash" =>
              /\ proc'[1].outcome = "duplicate" =>
                    \E i \in Counted(P) :
                       get_image_hash(Dir(P.hair_type)[i]) = HashInHand(P)
              /\ (proc'[1].outcome # "hash_error"
                    /\ \A i \in Counted(P) :
                          get_image_hash(Dir(P.hair_type)[i]) # HashInHand(P)) =>
                    /\ proc'[1].outcome = "new"
                    /\ proc'[1].downloaded = P.downloaded + 1 ]_vars

\* C20 witness: the directory held the file 0 before the call, and the call
\* has counted as file 1 a download with the same bytes.
C20_Witness ==
    /\ P.pc = "sleep" /\ P.outcome = "new"
    /\ P.existing = {0} /\ P.start_index = 1 /\ P.downloaded = 1
    /\ Dir(P.hair_type)[1] = Dir(P.hair_type)[0]

\* C25: when hashing the just-downloaded file raises, the file is removed
\* if it is there and the other files stay, downloaded and seen_hashes are
\* as before, and the call goes on, after the delay, with the URLs that
\* were still ahead.
C25_HashErrorRemovesFile ==
    [][ /\ (P.pc = "hash" /\ proc'[1].outcome = "hash_error") =>
             /\ proc'[1].pc = "cleanup"
             /\ proc'[1].downloaded = P.downloaded
             /\ proc'[1].seen_hashes = P.seen_hashes
             /\ fs' = fs
        /\ P.pc = "cleanup" =>
             /\ P.file_index \notin DOMAIN fs'[P.hair_type]
             /\ \A i \in DOMAIN Dir(P.hair_type) \ {P.file_index} :
                   /\ i \in DOMAIN fs'[P.hair_type]
                   /\ fs'[P.hair_type][i] = fs[P.hair_type][i]
             /\ proc'[1].pc = "sleep"
             /\ proc'[1].downloaded = P.downloaded
             /\ proc'[1].seen_hashes = P.seen_hashes
        /\ (P.pc = "sleep" /\ P.outcome = "hash_error") =>
             /\ proc'[1].pc = "url"
             /\ proc'[1].new_urls = P.new_urls
             /\ proc'[1].downloaded = P.downloaded
             /\ proc'[1].seen_hashes = P.seen_hashes
             /\ fs' = fs ]_vars

\* C25 witness: after one counted file, hashing the next download raised;
\* its file is gone and a URL of the response is still ahead.
C25_Witness ==
    /\ P.pc = "sleep" /\ P.outcome = "hash_error"
    /\ P.downloaded = 1 /\ P.new_urls # <<>>
    /\ P.last_written = P.file_index
    /\ P.file_index \notin DOMAIN Dir(P.hair_type)

\* C26 as stated: a download_image that returns failure leaves every
\* directory and file as it was.
C26_FailedDownloadLeavesNoTrace ==
    [][ (P.pc = "download" /\ proc'[1].outcome # "ok") => fs' = fs ]_vars

\* C27 as stated: when a call returns, the number of image files of the
\* category directory is start_index + downloaded.
C27_TotalInFolder ==
    (P.pc = "returned" /\ P.hair_type \in DOMAIN hair_type_queries) =>
        CountExisting(Dir(P.hair_type), other[P.hair_type])
            = P.start_index + P.downloaded

\* C29: a call for a category that is not in the catalog returns (0, 0)
\* and changes nothing else: no directory, no search, no download; every
\* return of a call adds its pair to the totals and moves on to the next
\* category, so that at the end every category was visited and the totals
\* are the sums of the pairs.
C29_UnknownCategorySkipped ==
    /\ [][ (P.pc = "collect" /\ P.hair_type \notin DOMAIN hair_type_queries) =>
              /\ proc'[1] = [P EXCEPT !.pc = "returned", !.ret = <<0, 0>>]
              /\ UNCHANGED <<output_dir, fs, other>> ]_vars
    /\ [][ P.pc = "returned" =>
              /\ proc'[1].pc = "driver"
              /\ proc'[1].ti = P.ti + 1
              /\ proc'[1].total_downloaded = P.total_downloaded + P.ret[1]
              /\ proc'[1].total_api_calls = P.total_api_calls + P.ret[2] ]_vars
    /\ []((P.pc = "driver" /\ P.ti = 1) =>
             (P.total_downloaded = 0 /\ P.total_api_calls = 0))
    /\ [](P.pc = "done" =>
             /\ P.ti = Len(P.hair_types) + 1
             /\ P.total_downloaded = Cardinality(P.kept))

\* C29 witness: a run over an unknown category and a known one is done;
\* only the known one has a directory, and the totals are its results.
C29_Witness ==
    /\ P.pc = "done" /\ P.hair_types = <<"9z", "2a">>
    /\ DOMAIN fs = {"2a"}
    /\ P.total_downloaded = 2 /\ P.total_api_calls = 1

(* ----------------------- two collections: claims ----------------------- *)
\* a file a process counted is gone, or no longer holds what it downloaded
Lost(k) == ~Exists(<<k[1], k[2]>>) \/ fs[k[1]][k[2]] # k[3]

\* C12: the first file a call writes has the index that is the number of
\* image files its directory held at the call's start; the files the call
\* counted are those of the indices start_index .. start_index+downloaded-1;
\* and over two calls for the same category, one after the other, from an
\* empty directory, every file either call counted is still there with the
\* bytes that call downloaded.
C12_RestartContinuesNumbering ==
    /\ (P.pc = "download" /\ P.last_written = -1) =>
           P.file_index = Cardinality(P.existing) + other[P.hair_type]
    /\ (InCall(P) \/ (P.pc = "returned" /\ P.hair_type \in DOMAIN hair_type_queries)) =>
           /\ {k[2] : k \in {x \in P.kept : x[1] = P.hair_type /\ x[2] >= P.start_index}}
                 = Counted(P)
           /\ Counted(P) \subseteq DOMAIN Dir(P.hair_type)
    /\ P.hair_types = <<"2a", "2a">> => \A k \in P.kept : ~Lost(k)

\* C12 witness: the second of two calls for the same category returns; the
\* first call counted the file 0 and left a truncated file 1, the second
\* started at index 2 and counted the file 2.
C12_Witness ==
    /\ P.pc = "returned" /\ P.hair_types = <<"2a", "2a">> /\ P.ti = 2
    /\ P.start_index = 2 /\ P.ret[1] = 1
    /\ {k[2] : k \in P.kept} = {0, 2}
    /\ DOMAIN Dir("2a") = {0, 1, 2}

\* C10: with two processes in the same category directory, a file one of
\* them counted as downloaded is gone or holds other bytes only where the
\* other process computed the same file index and wrote that file name too.
C10_LostOnlyByTheOtherRun ==
    \A p \in Procs : \A k \in proc[p].kept :
        Lost(k) =>
            \E q \in Procs \ {p} : <<k[1], k[2]>> \in proc[q].wrote

\* C10 witness: both processes computed the same file index, both wrote
\* that file name, and the file process 1 counted no longer holds what
\* process 1 downloaded.
C10_Witness ==
    \E k \in proc[1].kept :
        /\ Lost(k)
        /\ <<k[1], k[2]>> \in proc[1].wrote \cap proc[2].wrote

(* ------------- two collections, disjoint categories: claims ------------ *)
\* the files of a tree, as <directory, index, bytes>
FilesOf(tree) ==
    UNION {{<<c, i, tree[c][i]>> : i \in DOMAIN tree[c]} : c \in DOMAIN tree}
\* the names <directory, index> of the files a step creates, changes or deletes
TouchedNames ==
    {<<f[1], f[2]>> : f \in (FilesOf(fs) \ FilesOf(fs')) \cup (FilesOf(fs') \ FilesOf(fs))}

\* C11: with two processes over disjoint categories against one output
\* root, every file a step of one process creates, changes or deletes lies
\* in a directory of that process's own categories, which is none of the
\* other's, and is no file the other process ever wrote.
C11_DisjointNeverSameFile ==
    [][ \A p \in Procs :
          proc'[p] # proc[p] =>
             \A n \in TouchedNames :
                /\ n[1] \in Range(proc[p].hair_types)
                /\ \A q \in Procs \ {p} :
                      /\ n[1] \notin Range(proc[q].hair_types)
                      /\ n \notin proc[q].wrote ]_vars

\* C11 witness: both processes are done, each counted two files under the
\* indices 0 and 1 of its own directory, and all four files are there.
C11_Witness ==
    /\ \A p \in Procs :
          /\ proc[p].pc = "done"
          /\ {k[2] : k \in proc[p].kept} = {0, 1}
          /\ \A k \in proc[p].kept : ~Lost(k)
    /\ KeptNames(proc[1]) \cap KeptNames(proc[2]) = {}

(* --------------------------- filter: claims ---------------------------- *)
\* the number of images of the current folder processed so far
Processed == flt.type_stats.total - Len(flt.image_files)

RECURSIVE SumOver(_, _)
SumOver(S, f) ==
    IF S = {} THEN 0
    ELSE LET x == CHOOSE y \in S : TRUE IN f[x] + SumOver(S \ {x}, f)

\* the number of image files in the output tree
FilesIn(tree) == SumOver(DOMAIN tree, [c \in DOMAIN tree |-> Cardinality(DOMAIN tree[c])])

\* C5: processing an image copies it to the output tree, under the next
\* kept index, if count_people_in_image returned exactly 1 for it, and
\* leaves the output tree as it was for 0, for more than 1 and for None.
C5_CopiedIffOnePerson ==
    [][ (flt.pc = "image" /\ flt.image_files # <<>>) =>
            IF flt'.person_count = 1
            THEN out' = [out EXCEPT ![flt.hair_type] =
                            Put(@, flt.kept_count,
                                src[flt.hair_type][Head(flt.image_files)])]
            ELSE out' = out ]_vars

\* C5 witness: of two images of a folder the first was copied and the
\* second, with two people on it, was not.
C5_Witness ==
    /\ flt.pc = "image" /\ Processed = 2
    /\ flt.kept_count = 1 /\ flt.person_count = 2
    /\ DOMAIN out[flt.hair_type] = {0}

\* C6: after a complete pass into an initially empty output tree,
\* stats['one_person'] and the sum of by_type[c]['one_person'] both equal
\* the number of image files in the output tree.
C6_KeptEqualsFilesCopied ==
    (flt.pc = "done" /\ flt.fresh) =>
        /\ stats.one_person = FilesIn(out)
        /\ SumOver(DOMAIN stats.by_type,
                   [c \in DOMAIN stats.by_type |-> stats.by_type[c].one_person])
             = FilesIn(out)

\* C6 witness: a pass over two categories completed, with images kept in both.
C6_Witness ==
    /\ flt.pc = "done" /\ flt.fresh
    /\ DOMAIN stats.by_type = {"1", "2a"}
    /\ stats.by_type["1"].one_person = 2 /\ stats.by_type["2a"].one_person = 1

\* the sum of the four buckets of a statistics record
Buckets(r) == r.one_person + r.zero_people + r.multiple_people + r.errors

\* C21: after each processed image total_processed is the sum of the four
\* global buckets and the number of images of the folder processed so far
\* is the sum of the folder's four buckets; when the folder's loop has ended
\* type_stats['total'] is the sum of its four buckets.
C21_ExactlyOneBucket ==
    /\ [](/\ stats.total_processed = Buckets(stats)
          /\ flt.pc \in {"image", "folder_end"} => Processed = Buckets(flt.type_stats)
          /\ flt.pc = "folder_end" => flt.type_stats.total = Buckets(flt.type_stats))
    /\ [][ (flt.pc = "image" /\ flt.image_files # <<>>) =>
              /\ Buckets(stats') = Buckets(stats) + 1
              /\ Buckets(flt'.type_stats) = Buckets(flt.type_stats) + 1
              /\ \A b \in {"one_person", "zero_people", "multiple_people", "errors"} :
                    stats'[b] - stats[b] = flt'.type_stats[b] - flt.type_stats[b] ]_vars

\* C21 witness: a folder's loop ended with one image in each of two buckets
\* while an earlier folder filled the other two.
C21_Witness ==
    /\ flt.pc = "folder_end" /\ flt.hair_type = "2a"
    /\ flt.type_stats.multiple_people = 1 /\ flt.type_stats.errors = 1
    /\ stats.one_person = 1 /\ stats.zero_people = 1
    /\ stats.total_processed = 4

\* C22: when the detector raises on an image, count_people_in_image returns
\* None, errors grows by 1 in type_stats and in stats and no other bucket
\* changes, the output tree stays as it was, and the loop goes on with the
\* images that were still ahead.
C22_DetectorErrorCountedAndSkipped ==
    [][ (flt.pc = "image" /\ flt.image_files # <<>> /\ flt'.detector_raised) =>
            /\ flt'.person_count = NoCount
            /\ flt'.type_stats = [flt.type_stats EXCEPT !.errors = @ + 1]
            /\ stats' = [stats EXCEPT !.errors = @ + 1, !.total_processed = @ + 1]
            /\ out' = out
            /\ flt'.kept_count = flt.kept_count
            /\ flt'.pc = "image"
            /\ flt'.image_files = Tail(flt.image_files) ]_vars

\* C22 witness: the detector raised on the first image of a folder and the
\* second image is still to be processed.
C22_Witness ==
    /\ flt.pc = "image" /\ flt.detector_raised
    /\ Processed = 1 /\ Len(flt.image_files) = 1
    /\ flt.type_stats.errors = 1 /\ stats.errors = 1

\* C23: no step of a pass changes the dataset tree; an image that is kept
\* is copied under the index that is the number of images of its folder
\* kept before it, with the other files of the output directory untouched,
\* so that the kept files of a folder are those of the indices
\* 0 .. kept_count-1, in the order of processing.
C23_CopiesUnderContiguousIndices ==
    /\ [][src' = src]_vars
    /\ [][ (flt.pc = "image" /\ flt.image_files # <<>>
               /\ flt'.kept_count # flt.kept_count) =>
              /\ flt'.kept_count = flt.kept_count + 1
              /\ flt.kept_count \in DOMAIN out'[flt.hair_type]
              /\ out'[flt.hair_type][flt.kept_count]
                    = src[flt.hair_type][Head(flt.image_files)]
              /\ \A j \in DOMAIN out[flt.hair_type] \ {flt.kept_count} :
                    /\ j \in DOMAIN out'[flt.hair_type]
                    /\ out'[flt.hair_type][j] = out[flt.hair_type][j] ]_vars
    /\ [](flt.pc \in {"image", "folder_end"} =>
             /\ flt.kept_count = flt.type_stats.one_person
             /\ 0 .. (flt.kept_count - 1) \subseteq DOMAIN out[flt.hair_type]
             /\ flt.fresh => DOMAIN out[flt.hair_type] = 0 .. (flt.kept_count - 1))

\* C23 witness: a pass is done that kept both images of folder "1", the
\* second image of the folder first; both are still in the dataset tree.
C23_Witness ==
    /\ flt.pc = "done" /\ flt.fresh
    /\ "1" \in DOMAIN out /\ DOMAIN out["1"] = {0, 1}
    /\ out["1"][0] = src["1"][2] /\ out["1"][1] = src["1"][1]
    /\ src["1"][1] # src["1"][2]

\* the sum of a counter over the entries of stats['by_type']
SumByType(field) ==
    SumOver(DOMAIN stats.by_type, [c \in DOMAIN stats.by_type |-> stats.by_type[c][field]])

\* C28: once a folder is finished, and until the next one starts, each of
\* the global counters one_person, zero_people, multiple_people and errors
\* is the sum of that counter over the entries of by_type, and
\* total_processed is the sum of the entries' totals.
C28_GlobalCountersAreSums ==
    flt.pc \in {"loop", "save", "summary", "done", "raised"} =>
        /\ \A b \in {"one_person", "zero_people", "multiple_people", "errors"} :
              stats[b] = SumByType(b)
        /\ stats.total_processed = SumByType("total")

\* C28 witness: two folders are finished, with images kept in both and a
\* detector error in the second.
C28_Witness ==
    /\ flt.pc = "loop" /\ flt.i = 3
    /\ DOMAIN stats.by_type = {"1", "2a"}
    /\ stats.by_type["1"].one_person = 1 /\ stats.by_type["2a"].one_person = 1
    /\ stats.by_type["2a"].errors = 1 /\ stats.one_person = 2

\* the boxes of a list, one by one: those of class 0 with a confidence
\* strictly above 0.5 (50 percent)
RECURSIVE PeopleAmong(_)
PeopleAmong(boxes) ==
    IF boxes = <<>> THEN 0
    ELSE (IF Head(boxes).cls = 0 /\ Head(boxes).conf > 50 THEN 1 ELSE 0)
         + PeopleAmong(Tail(boxes))

\* C24: when the detector does not raise, count_people_in_image returns the
\* number of boxes of class 0 with a confidence strictly above 0.5: a list
\* of boxes that are all at the threshold or below it, or of another class,
\* gives 0, and a list of boxes of class 0 above it gives its length.
C24_CountsPersonsAboveThreshold ==
    (flt.pc = "counted" /\ ~flt.detection.raises) =>
        LET boxes == flt.detection.boxes IN
        /\ flt.person_count = PeopleAmong(boxes)
        /\ (\A i \in DOMAIN boxes : boxes[i].cls # 0 \/ boxes[i].conf <= 50) =>
               flt.person_count = 0
        /\ (\A i \in DOMAIN boxes : boxes[i].cls = 0 /\ boxes[i].conf >= 51) =>
               flt.person_count = Len(boxes)

\* C24 witness: of two boxes of class 0, one at the threshold and one just
\* above it, one was counted.
C24_Witness ==
    /\ flt.pc = "counted" /\ ~flt.detection.raises
    /\ flt.detection.boxes = <<[cls |-> 0, conf |-> 50], [cls |-> 0, conf |-> 51]>>
    /\ flt.person_count = 1

\* C7 as stated: no exception propagates out of filter_all before
\* save_statistics was reached.
C7_NoExceptionBeforeSave == ~(flt.pc = "raised" /\ stats_file = <<>>)

\* C13 as stated: the statistics file is written at most once, only when
\* every category directory of the dataset was processed, and a pass that
\* has ended has written it exactly once.
C13_StatsWrittenOnceAtEnd ==
    /\ Len(stats_file) <= 1
    /\ stats_file # <<>> =>
          /\ flt.pc \in {"summary", "done", "raised"}
          /\ DOMAIN stats_file[1].by_type = DOMAIN src
          /\ stats_file[1] = stats
    /\ flt.pc \in {"done", "raised"} => Len(stats_file) = 1

====
